---- MODULE Spec2Model ----
(***************************************************************************)
(* Request lifecycle of the DevOps practice server: configuration, request *)
(* logger, body parsers, route handlers, 404 generator, central error      *)
(* handler and the in-memory session store; and the process around it:     *)
(* startup, shutdown signals, uncaught exceptions and rejections.          *)
(*                                                                         *)
(* JavaScript values are records [t, v] of strings: t is the typeof tag    *)
(* and v the printed value, so that ===, || and ! can be computed as the   *)
(* language computes them.  Numeric fields that the code only reads with   *)
(* "||" (err.statusCode, err.status) are naturals with 0 for the falsy     *)
(* case (undefined or 0); string fields read the same way (err.code,       *)
(* err.message) use "" for the falsy case.                                 *)
(***************************************************************************)
EXTENDS Integers, Sequences, FiniteSets, TLC

\* ------------------------------------------------------------------ bounds
\* Connections open at a time; each carries one request at a time.
MaxConns == 1
\* Last value of the millisecond clock (Date.now()).
MaxClock == 1
\* Shutdown signals the process receives.
MaxSignals == 2
\* Unhandled promise rejections the process sees.
MaxRejections == 1

Conns == 1..MaxConns

\* ------------------------------------------------------- JavaScript values
Undefined == [t |-> "undefined", v |-> ""]
Str(s)    == [t |-> "string", v |-> s]
Num(s)    == [t |-> "number", v |-> s]
Bool(s)   == [t |-> "boolean", v |-> s]

\* ToBoolean: undefined, "", 0 and false are falsy.
Truthy(x) ==
  CASE x.t = "undefined" -> FALSE
    [] x.t = "string"    -> x.v # ""
    [] x.t = "number"    -> x.v \notin {"0", "NaN"}
    [] x.t = "boolean"   -> x.v = "true"
    [] OTHER             -> TRUE

\* a || b on naturals, 0 the falsy value
OrNum(a, b) == IF a # 0 THEN a ELSE b
\* a || b on strings, "" the falsy value
OrStr(a, b) == IF a # "" THEN a ELSE b

\* String.prototype.includes
Includes(s, sub) ==
  \E i \in 1..(Len(s) - Len(sub) + 1) : SubSeq(s, i, i + Len(sub) - 1) = sub

\* Number.prototype.toString (decimal)
Digits == <<"0", "1", "2", "3", "4", "5", "6", "7", "8", "9">>
RECURSIVE NumToString(_)
NumToString(n) ==
  IF n < 10 THEN Digits[n + 1] ELSE NumToString(n \div 10) \o Digits[(n % 10) + 1]

\* Date.prototype.toISOString of the instant n milliseconds after the epoch
\* (n < 1000 within the clock's bounds).
ToISOString(n) ==
  "1970-01-01T00:00:00." \o (IF n < 10 THEN "00" ELSE IF n < 100 THEN "0" ELSE "")
                         \o NumToString(n) \o "Z"

\* A JavaScript number as the scaled integer num / scale, or NaN.
NaN == [nan |-> TRUE, num |-> 0, scale |-> 1]

IsDigits(s) == \A i \in 1..Len(s) : \E d \in 1..10 : SubSeq(s, i, i) = Digits[d]
DigitValue(ch) == (CHOOSE d \in 1..10 : Digits[d] = ch) - 1
RECURSIVE ParseDigits(_)
ParseDigits(s) ==
  IF Len(s) = 0 THEN 0
  ELSE ParseDigits(SubSeq(s, 1, Len(s) - 1)) * 10 + DigitValue(SubSeq(s, Len(s), Len(s)))
RECURSIVE Pow10(_)
Pow10(k) == IF k = 0 THEN 1 ELSE 10 * Pow10(k - 1)

\* ToNumber of a string holding a signed decimal literal (digits with an
\* optional fraction); every other non-empty string is NaN.
ToNumber(s) ==
  LET signed == Len(s) > 0 /\ SubSeq(s, 1, 1) \in {"-", "+"}
      u      == IF signed THEN SubSeq(s, 2, Len(s)) ELSE s
      dots   == {i \in 1..Len(u) : SubSeq(u, i, i) = "."}
      dot    == IF dots = {} THEN Len(u) + 1 ELSE CHOOSE i \in dots : \A j \in dots : i <= j
      ip     == SubSeq(u, 1, dot - 1)
      fp     == SubSeq(u, dot + 1, Len(u))
      sign   == IF signed /\ SubSeq(s, 1, 1) = "-" THEN -1 ELSE 1
  IN IF IsDigits(ip) /\ IsDigits(fp) /\ Len(ip) + Len(fp) > 0
     THEN [nan   |-> FALSE,
           num   |-> sign * (ParseDigits(ip) * Pow10(Len(fp)) + ParseDigits(fp)),
           scale |-> Pow10(Len(fp))]
     ELSE NaN

\* isNaN(x), x < k and x > k for an integer k (false on NaN)
IsNaN(n) == n.nan
NumLess(n, k) == ~n.nan /\ n.num < k * n.scale
NumGreater(n, k) == ~n.nan /\ n.num > k * n.scale
IsInteger(n) == ~n.nan /\ n.num % n.scale = 0

\* The pathname of a request URL: the part before "?".
Pathname(url) ==
  IF \E i \in 1..Len(url) : SubSeq(url, i, i) = "?"
  THEN LET q == CHOOSE i \in 1..Len(url) :
                  /\ SubSeq(url, i, i) = "?"
                  /\ \A j \in 1..(i - 1) : SubSeq(url, j, j) # "?"
       IN SubSeq(url, 1, q - 1)
  ELSE url

\* ------------------------------------------------------------ configuration
\* Values of the environment variables the configuration reads ("" = unset).
NodeEnvValues == {"", "production", "test", "staging"}
FlagValues    == {"", "false"}
PortValues ==
  {"", "1", "8080", "65535", "0", "65536", "99999", "-1", "abc", "80a", "80.5"}
\* Environments of a server that runs with the default port.
Environments ==
  [PORT : {""}, NODE_ENV : NodeEnvValues, ENABLE_LOGGING : FlagValues,
   ENABLE_ERROR_HANDLER : FlagValues]
\* Environments the configuration may be loaded from.
ConfigEnvironments ==
  [PORT : PortValues, NODE_ENV : NodeEnvValues, ENABLE_LOGGING : FlagValues,
   ENABLE_ERROR_HANDLER : FlagValues]

DefaultPort == 3000

\* The config object built at module load: the port is the PORT string when
\* PORT is set and the number 3000 otherwise.
LoadConfig(e) ==
  [port     |-> IF e.PORT # "" THEN Str(e.PORT) ELSE Num(NumToString(DefaultPort)),
   nodeEnv  |-> OrStr(e.NODE_ENV, "development"),
   features |-> [enableLogging      |-> e.ENABLE_LOGGING # "false",
                 enableErrorHandler |-> e.ENABLE_ERROR_HANDLER # "false"]]

\* validateConfig: the errors it collects and the warnings it prints.
validateConfig(cfg) ==
  LET n == ToNumber(cfg.port.v)
  IN [errors   |-> IF IsNaN(n) \/ NumLess(n, 1) \/ NumGreater(n, 65535)
                   THEN <<"Invalid PORT: " \o cfg.port.v>> ELSE <<>>,
      warnings |-> IF cfg.nodeEnv \notin {"development", "production", "test"}
                   THEN <<"Warning: Unusual NODE_ENV value: " \o cfg.nodeEnv>> ELSE <<>>]

\* The Error validateConfig throws for a non-empty list of errors (the list
\* never holds more than one).
ConfigurationError(errors) == "Configuration errors:\n" \o errors[1]

\* net.Server.listen takes the port when it is an integer in 0..65535 and
\* throws ERR_SOCKET_BAD_PORT otherwise.
ValidListenPort(port) ==
  LET n == ToNumber(port.v)
  IN IsInteger(n) /\ ~NumLess(n, 0) /\ ~NumGreater(n, 65535)

\* ----------------------------------------------------------------- requests
EmptyBody ==
  [username |-> Undefined, password |-> Undefined, name |-> Undefined, value |-> Undefined]
LoginBody(u, p) == [EmptyBody EXCEPT !.username = u, !.password = p]
DataBody(n, v)  == [EmptyBody EXCEPT !.name = n, !.value = v]

\* A request: method, URL, Referer header, whether Accept asks for JSON,
\* whether the body parsers can parse the body, and the parsed body.
Req(m, u, ref, acc, ok, b) ==
  [method |-> m, url |-> u, referer |-> ref, accept |-> acc, bodyOk |-> ok, body |-> b]

RefLogin == Str("http://localhost:3000/login")
RefHome  == Str("http://localhost:3000/")

PageRequests ==
  { Req("GET", "/", Undefined, "html", TRUE, EmptyBody),
    Req("GET", "/login", RefHome, "html", TRUE, EmptyBody),
    Req("GET", "/logout", Undefined, "html", TRUE, EmptyBody) }
LoginRequests ==
  { Req("POST", "/login", RefLogin, "html", TRUE, LoginBody(u, p)) :
      <<u, p>> \in { <<Str("admin"), Str("password123")>>,
                     <<Str("admin"), Str("wrong")>>,
                     <<Str("root"), Str("password123")>>,
                     <<Undefined, Undefined>> } }
DashboardRequests ==
  { Req(m, "/dashboard", ref, "html", TRUE, EmptyBody) :
      <<m, ref>> \in { <<"GET", Undefined>>, <<"GET", RefLogin>>, <<"GET", RefHome>>,
                       <<"HEAD", Undefined>>, <<"HEAD", RefLogin>> } }
ApiRequests ==
  { Req("GET", "/api/data?page=1", Undefined, "json", TRUE, EmptyBody),
    Req("GET", "/health", Undefined, "json", TRUE, EmptyBody) }
  \cup
  { Req("POST", "/api/data", Undefined, "json", TRUE, DataBody(n, v)) :
      <<n, v>> \in { <<Str("test"), Str("123")>>,
                     <<Str("test"), Undefined>>,
                     <<Undefined, Str("123")>>,
                     <<Str("test"), Num("0")>>,
                     <<Str(""), Bool("false")>> } }
UnmatchedRequests ==
  { Req("GET", "/nonexistent", Undefined, "json", TRUE, EmptyBody),
    Req("GET", "/nonexistent?x=1", Undefined, "html", TRUE, EmptyBody),
    Req("DELETE", "/login", Undefined, "html", TRUE, EmptyBody),
    Req("POST", "/", Undefined, "json", TRUE, EmptyBody) }
MalformedRequests ==
  { Req("POST", "/nonexistent", Undefined, "json", FALSE, EmptyBody),
    Req("POST", "/api/data", Undefined, "json", FALSE, EmptyBody) }

Requests ==
  PageRequests \cup LoginRequests \cup DashboardRequests \cup ApiRequests
    \cup UnmatchedRequests \cup MalformedRequests

\* ---------------------------------------------------------------- responses
None == [t |-> "none"]
\* A response: its status, the call that sent it ("json" for res.json, "send"
\* for res.send of a string, "sendFile", "redirect"), its Location header and
\* its body.
Response(st, k, loc, b) == [status |-> st, kind |-> k, location |-> loc, body |-> b]
\* res.redirect(url): 302 Found with a Location header
Redirect(url) == Response(302, "redirect", url, "")

\* ------------------------------------------------------------------ routing
\* The routes in registration order (index, auth, dashboard, api routers).
Routes ==
  << [name |-> "home",      method |-> "GET",  path |-> "/"],
     [name |-> "loginPage", method |-> "GET",  path |-> "/login"],
     [name |-> "login",     method |-> "POST", path |-> "/login"],
     [name |-> "logout",    method |-> "GET",  path |-> "/logout"],
     [name |-> "dashboard", method |-> "GET",  path |-> "/dashboard"],
     [name |-> "apiData",   method |-> "GET",  path |-> "/api/data"],
     [name |-> "health",    method |-> "GET",  path |-> "/health"],
     [name |-> "postData",  method |-> "POST", path |-> "/api/data"] >>

\* A route registered with router.get also serves HEAD requests.
RouteMatches(route, rq) ==
  /\ Pathname(rq.url) = route.path
  /\ \/ rq.method = route.method
     \/ route.method = "GET" /\ rq.method = "HEAD"

\* The name of the first route that matches the request, "none" if none does.
MatchedRoute(rq) ==
  IF \E i \in 1..Len(Routes) : RouteMatches(Routes[i], rq)
  THEN Routes[CHOOSE i \in 1..Len(Routes) :
                /\ RouteMatches(Routes[i], rq)
                /\ \A j \in 1..(i - 1) : ~RouteMatches(Routes[j], rq)].name
  ELSE "none"

\* ------------------------------------------------------------------- faults
Fault(msg, sc, st, cd) ==
  [message |-> msg, statusCode |-> sc, status |-> st, code |-> cd,
   stack |-> "Error: " \o msg \o "\n    at <anonymous>"]

\* The error the body parsers pass on for a body they cannot parse.
BodyParseError == Fault("Unexpected token in JSON", 400, 400, "")
\* A sendFile error that carries no status.
SendFileErrorUntyped == Fault("ENOENT: no such file or directory", 0, 0, "ENOENT")

\* The error res.sendFile passes on for a file that does not exist.
SendFileError == Fault("ENOENT: no such file or directory", 404, 404, "ENOENT")

\* notFoundHandler with a message that leaves the method out.
notFoundHandlerNoMethod(rq) ==
  Fault("Route not found: " \o rq.url, 404, 0, "NOT_FOUND")

notFoundHandler(rq) ==
  Fault("Route not found: " \o rq.method \o " " \o rq.url, 404, 0, "NOT_FOUND")

\* The status resolution with err.statusCode left out.
resolveStatusNoStatusCode(e) == OrNum(e.status, 500)

\* const statusCode = err.statusCode || err.status || 500
resolveStatus(e) == OrNum(e.statusCode, OrNum(e.status, 500))

\* The envelope with the stack included in every environment.
errorResponseAlwaysStack(cfg, e, t) ==
  [success |-> FALSE,
   error   |-> [message   |-> OrStr(e.message, "Internal Server Error"),
                code      |-> OrStr(e.code, "INTERNAL_ERROR"),
                timestamp |-> ToISOString(t),
                stack     |-> e.stack]]

\* The errorResponse object built at time t.
errorResponse(cfg, e, t) ==
  LET base == [message   |-> OrStr(e.message, "Internal Server Error"),
               code      |-> OrStr(e.code, "INTERNAL_ERROR"),
               timestamp |-> ToISOString(t)]
  IN [success |-> FALSE,
      error   |-> IF cfg.nodeEnv = "development" THEN base @@ [stack |-> e.stack] ELSE base]

\* What errorHandler writes with console.error.
ErrorRecord(e, rq, t) ==
  [message |-> e.message, stack |-> e.stack, url |-> rq.url, method |-> rq.method,
   timestamp |-> ToISOString(t)]

\* errorHandler without the feature-toggle check.
errorHandlerIgnoresToggle(cfg, e, rq, t) ==
  [res    |-> Response(resolveStatus(e), "json", "", errorResponse(cfg, e, t)),
   errors |-> << ErrorRecord(e, rq, t) >>]

\* errorHandler rendering an HTML page for requests that do not accept JSON.
errorHandlerByAccept(cfg, e, rq, t) ==
  IF ~cfg.features.enableErrorHandler
  THEN [res |-> Response(500, "send", "", "Error handler is disabled"), errors |-> <<>>]
  ELSE [res    |-> IF rq.accept = "json"
                   THEN Response(resolveStatus(e), "json", "", errorResponse(cfg, e, t))
                   ELSE Response(resolveStatus(e), "send", "", "<h1>Error</h1>"),
        errors |-> << ErrorRecord(e, rq, t) >>]

\* errorHandler(err, req, res, next) at time t: the response it sends and
\* what it writes with console.error.
errorHandler(cfg, e, rq, t) ==
  IF ~cfg.features.enableErrorHandler
  THEN [res |-> Response(500, "send", "", "Error handler is disabled"), errors |-> <<>>]
  ELSE [res    |-> Response(resolveStatus(e), "json", "", errorResponse(cfg, e, t)),
        errors |-> << ErrorRecord(e, rq, t) >>]

\* ----------------------------------------------------------- route handlers
DEMO_USER == [username |-> Str("admin"), password |-> Str("password123")]

\* The credential check with the password comparison left out.
ValidCredentialsUsernameOnly(b) == b.username = DEMO_USER.username

ValidCredentials(b) ==
  b.username = DEMO_USER.username /\ b.password = DEMO_USER.password

\* sessions.set(key, value) on the Map
MapSet(m, k, v) == [x \in (DOMAIN m) \cup {k} |-> IF x = k THEN v ELSE m[x]]
EmptyMap == [x \in {} |-> None]

LoginFailedPage == "<h1>Login Failed</h1><p>Invalid username or password</p>"

\* requireAuth: TRUE when it calls next(), FALSE when it redirects to /login.
hasSession(rq) == Truthy(rq.referer) /\ Includes(rq.referer.v, "login")
requireAuth(rq) == ~(~hasSession(rq) /\ rq.method = "GET")

\* POST /api/data at time t
postData(b, t) ==
  IF ~Truthy(b.name) \/ ~Truthy(b.value)
  THEN Response(400, "json", "",
                [success |-> FALSE, error |-> "Missing required fields: name and value"])
  ELSE Response(201, "json", "",
                [success |-> TRUE, message |-> "Data created successfully",
                 data |-> [name |-> b.name, value |-> b.value, id |-> t]])

\* GET /api/data at time t
SampleData(t) ==
  Response(200, "json", "",
           [success |-> TRUE, timestamp |-> ToISOString(t),
            data |-> [users |-> << [id |-> 1, name |-> "Alice", role |-> "Admin"],
                                   [id |-> 2, name |-> "Bob", role |-> "User"],
                                   [id |-> 3, name |-> "Charlie", role |-> "User"] >>,
                      stats |-> [totalUsers |-> 3, activeUsers |-> 2, serverUptime |-> t]]])

\* GET /health at time t (the memory snapshot is left out of the payload)
HealthData(cfg, t) ==
  Response(200, "json", "",
           [status |-> "OK", timestamp |-> ToISOString(t), uptime |-> t,
            environment |-> cfg.nodeEnv])

\* The line the logger's finish callback prints.
LogLine(rq, rs, startTime, t) ==
  [timestamp |-> ToISOString(t), method |-> rq.method, url |-> rq.url,
   status |-> rs.status, duration |-> t - startTime,
   color |-> IF rs.status >= 400 /\ rs.status < 500 THEN "yellow"
             ELSE IF rs.status >= 500 THEN "red" ELSE "green"]

\* -------------------------------------------------------------------- state
VARIABLES
  env,       \* the process environment the configuration was read from
  config,    \* the config object
  now,       \* Date.now()
  sessions,  \* the session Map of the auth router: token -> {username, loginTime}
  pc,        \* per connection: where its current request is in the pipeline
  req,       \* per connection: the current request
  err,       \* per connection: the error passed to next(err), None if none
  res,       \* per connection: the response sent, None before it is sent
  file,      \* per connection: the view res.sendFile is reading, "" if none
  finishCb,  \* per connection: the logger's finish listener, None if not registered
  stdout,    \* per connection: lines console.log printed for the current request
  stderr,    \* per connection: records console.error printed for the current request
  cleared,   \* history: how many records the last sessions.clear() removed
  proc,      \* the process: phase, exit code, error thrown at startup, callbacks
             \* waiting for the server's 'close' event, process-level console lines
  prev       \* history: a request answered earlier and its outcome, None if none kept

vars == <<env, config, now, sessions, pc, req, err, res, file, finishCb, stdout, stderr,
          cleared, proc, prev>>

\* The process while the modules are being loaded.
Loading == [phase |-> "loading", exitCode |-> -1, thrown |-> "", closeCbs |-> 0, log |-> <<>>]
\* The process once app.listen has bound the port.
Listening(cfg) == [Loading EXCEPT !.phase = "listening", !.log = validateConfig(cfg).warnings]
\* The process is running its event loop.
Alive == proc.phase \in {"listening", "closing"}

Init ==
  /\ env \in Environments
  /\ config = LoadConfig(env)
  /\ proc = Listening(config)
  /\ prev = None
  /\ now = 0
  /\ sessions = EmptyMap
  /\ pc = [c \in Conns |-> "idle"]
  /\ req = [c \in Conns |-> None]
  /\ err = [c \in Conns |-> None]
  /\ res = [c \in Conns |-> None]
  /\ file = [c \in Conns |-> ""]
  /\ finishCb = [c \in Conns |-> None]
  /\ stdout = [c \in Conns |-> <<>>]
  /\ stderr = [c \in Conns |-> <<>>]
  /\ cleared = 0

\* The logger with its feature toggle inverted.
loggerInverted(cfg, t) ==
  IF cfg.features.enableLogging THEN None ELSE [t |-> "listener", startTime |-> t]

\* The logger middleware's registration step: the listener it puts on
\* 'finish', None when logging is disabled.
logger(cfg, t) ==
  IF ~cfg.features.enableLogging THEN None ELSE [t |-> "listener", startTime |-> t]

\* A request arrives on a free connection and passes the logger; the body
\* parsers then read its body.
Receive(c) ==
  /\ proc.phase = "listening"
  /\ pc[c] \in {"idle", "done"}
  /\ \E rq \in Requests : req' = [req EXCEPT ![c] = rq]
  /\ finishCb' = [finishCb EXCEPT ![c] = logger(config, now)]
  /\ pc' = [pc EXCEPT ![c] = "body"]
  /\ err' = [err EXCEPT ![c] = None]
  /\ res' = [res EXCEPT ![c] = None]
  /\ file' = [file EXCEPT ![c] = ""]
  /\ stdout' = [stdout EXCEPT ![c] = <<>>]
  /\ stderr' = [stderr EXCEPT ![c] = <<>>]
  /\ UNCHANGED <<env, config, now, sessions, cleared, proc, prev>>

\* A handler or middleware calls next(error).
Raise(c, e) ==
  /\ err' = [err EXCEPT ![c] = e]
  /\ pc' = [pc EXCEPT ![c] = "faulted"]
  /\ UNCHANGED <<res, file>>

\* A handler sends the response.
Send(c, rs) ==
  /\ res' = [res EXCEPT ![c] = rs]
  /\ pc' = [pc EXCEPT ![c] = "sent"]
  /\ UNCHANGED <<err, file>>

\* A handler calls res.sendFile(view).
SendFile(c, view) ==
  /\ file' = [file EXCEPT ![c] = view]
  /\ pc' = [pc EXCEPT ![c] = "sendFile"]
  /\ UNCHANGED <<err, res>>

\* The request has passed the body parsers and reaches the route named r.
Routed(c, r) == Alive /\ pc[c] = "body" /\ req[c].bodyOk /\ MatchedRoute(req[c]) = r

Quiet == UNCHANGED <<env, config, now, req, finishCb, stdout, stderr, proc, prev>>
SameStore == UNCHANGED <<sessions, cleared>>

\* express.json() / express.urlencoded() reject the body.
BodyParseFail(c) ==
  /\ Alive /\ pc[c] = "body" /\ ~req[c].bodyOk
  /\ Raise(c, BodyParseError)
  /\ SameStore /\ Quiet

GetHome(c) ==
  /\ Routed(c, "home")
  /\ SendFile(c, "home.html")
  /\ SameStore /\ Quiet

GetLogin(c) ==
  /\ Routed(c, "loginPage")
  /\ SendFile(c, "login.html")
  /\ SameStore /\ Quiet

\* A login that refuses a second session while the store holds one.
PostLoginSingleSession(c) ==
  /\ Routed(c, "login")
  /\ IF ValidCredentials(req[c].body) /\ DOMAIN sessions = {}
     THEN /\ sessions' = MapSet(sessions, NumToString(now),
                                [username |-> req[c].body.username, loginTime |-> now])
          /\ Send(c, Redirect("/dashboard"))
          /\ UNCHANGED cleared
     ELSE /\ Send(c, Response(401, "send", "", LoginFailedPage))
          /\ SameStore
  /\ Quiet

PostLogin(c) ==
  /\ Routed(c, "login")
  /\ IF ValidCredentials(req[c].body)
     THEN /\ sessions' = MapSet(sessions, NumToString(now),
                                [username |-> req[c].body.username, loginTime |-> now])
          /\ Send(c, Redirect("/dashboard"))
          /\ UNCHANGED cleared
     ELSE /\ Send(c, Response(401, "send", "", LoginFailedPage))
          /\ SameStore
  /\ Quiet

\* Logout that deletes only the session created at the current instant.
GetLogoutDeletesOne(c) ==
  /\ Routed(c, "logout")
  /\ sessions' = [k \in (DOMAIN sessions) \ {NumToString(now)} |-> sessions[k]]
  /\ cleared' = Cardinality(DOMAIN sessions) - Cardinality(DOMAIN sessions')
  /\ Send(c, Redirect("/"))
  /\ Quiet

GetLogout(c) ==
  /\ Routed(c, "logout")
  /\ sessions' = EmptyMap
  /\ cleared' = Cardinality(DOMAIN sessions)
  /\ Send(c, Redirect("/"))
  /\ Quiet

\* A dashboard gate that looks for a record in the session store.
GetDashboardBySession(c) ==
  /\ Routed(c, "dashboard")
  /\ IF DOMAIN sessions # {}
     THEN SendFile(c, "dashboard.html")
     ELSE Send(c, Redirect("/login"))
  /\ SameStore /\ Quiet

GetDashboard(c) ==
  /\ Routed(c, "dashboard")
  /\ IF requireAuth(req[c])
     THEN SendFile(c, "dashboard.html")
     ELSE Send(c, Redirect("/login"))
  /\ SameStore /\ Quiet

GetApiData(c) ==
  /\ Routed(c, "apiData")
  /\ Send(c, SampleData(now))
  /\ SameStore /\ Quiet

GetHealth(c) ==
  /\ Routed(c, "health")
  /\ Send(c, HealthData(config, now))
  /\ SameStore /\ Quiet

PostApiData(c) ==
  /\ Routed(c, "postData")
  /\ Send(c, postData(req[c].body, now))
  /\ SameStore /\ Quiet

\* No route matched: the 404 generator.
NotFound(c) ==
  /\ Routed(c, "none")
  /\ Raise(c, notFoundHandler(req[c]))
  /\ SameStore /\ Quiet

\* res.sendFile finds the view and streams it.
SendFileOk(c) ==
  /\ Alive /\ pc[c] = "sendFile"
  /\ Send(c, Response(200, "sendFile", "", file[c]))
  /\ SameStore /\ Quiet

\* res.sendFile does not find the view and calls next(err).
SendFileFail(c) ==
  /\ Alive /\ pc[c] = "sendFile"
  /\ Raise(c, SendFileError)
  /\ SameStore /\ Quiet

\* An error handler that hands the request back to the routes.
ErrorHandlerRetries(c) ==
  /\ Alive /\ pc[c] = "faulted"
  /\ pc' = [pc EXCEPT ![c] = "body"]
  /\ UNCHANGED <<env, config, now, sessions, cleared, req, err, res, file, finishCb, stdout,
                 stderr, proc, prev>>

\* The central error handler takes the error passed to next.
ErrorHandler(c) ==
  /\ Alive /\ pc[c] = "faulted"
  /\ LET out == errorHandler(config, err[c], req[c], now)
     IN /\ Send(c, out.res)
        /\ stderr' = [stderr EXCEPT ![c] = stderr[c] \o out.errors]
  /\ UNCHANGED <<env, config, now, sessions, cleared, req, finishCb, stdout, proc, prev>>

\* The response has been written out: 'finish' fires and the logger's
\* listener, if registered, prints its line.
Finish(c) ==
  /\ Alive /\ pc[c] = "sent"
  /\ pc' = [pc EXCEPT ![c] = "done"]
  /\ stdout' = [stdout EXCEPT ![c] =
                  IF finishCb[c] = None THEN stdout[c]
                  ELSE Append(stdout[c], LogLine(req[c], res[c], finishCb[c].startTime, now))]
  /\ UNCHANGED <<env, config, now, sessions, cleared, req, err, res, file, finishCb, stderr,
                 proc, prev>>

\* A millisecond passes.
Tick ==
  /\ now < MaxClock
  /\ now' = now + 1
  /\ UNCHANGED <<env, config, sessions, cleared, pc, req, err, res, file, finishCb, stdout,
                 stderr, proc, prev>>

Next ==
  \/ Tick
  \/ \E c \in Conns :
       \/ Receive(c)
       \/ BodyParseFail(c)
       \/ GetHome(c)
       \/ GetLogin(c)
       \/ PostLogin(c)
       \/ GetLogout(c)
       \/ GetDashboard(c)
       \/ GetApiData(c)
       \/ GetHealth(c)
       \/ PostApiData(c)
       \/ NotFound(c)
       \/ SendFileOk(c)
       \/ SendFileFail(c)
       \/ ErrorHandler(c)
       \/ Finish(c)

Spec == Init /\ [][Next]_vars

\* ------------------------------------------------- the error handler alone
\* Errors a middleware or handler may pass to next(err): thrown exceptions
\* without status or code, and errors typed with statusCode, status or code.
FaultInputs ==
  { Fault(m, sc, st, cd) :
      m \in {"", "boom"}, sc \in {0, 404, 503}, st \in {0, 400}, cd \in {"", "E_CUSTOM"} }

\* The first connection holds a request whose handler has just called
\* next(err) with one of FaultInputs.
InitFault ==
  /\ env \in Environments
  /\ config = LoadConfig(env)
  /\ proc = Listening(config)
  /\ prev = None
  /\ now = 0
  /\ sessions = EmptyMap
  /\ cleared = 0
  /\ pc = [c \in Conns |-> IF c = 1 THEN "faulted" ELSE "idle"]
  /\ \E rq \in UnmatchedRequests \cup LoginRequests :
       req = [c \in Conns |-> IF c = 1 THEN rq ELSE None]
  /\ \E e \in FaultInputs : err = [c \in Conns |-> IF c = 1 THEN e ELSE None]
  /\ res = [c \in Conns |-> None]
  /\ file = [c \in Conns |-> ""]
  /\ finishCb = [c \in Conns |-> IF c = 1 THEN logger(config, now) ELSE None]
  /\ stdout = [c \in Conns |-> <<>>]
  /\ stderr = [c \in Conns |-> <<>>]

NextFault == \E c \in Conns : ErrorHandler(c) \/ Finish(c)

SpecFault == InitFault /\ [][NextFault]_vars

\* ------------------------------------------------------------------ startup
\* What the startup steps leave alone.
NoTraffic ==
  UNCHANGED <<env, now, sessions, pc, req, err, res, file, finishCb, stdout, stderr, cleared,
              prev>>

\* require('./config/config'): the config object is built and validated; an
\* error thrown while the modules load ends the process with exit code 1.
LoadAndValidate ==
  /\ proc.phase = "loading"
  /\ LET cfg == LoadConfig(env)
         v   == validateConfig(cfg)
     IN IF v.errors # <<>>
        THEN /\ config' = None
             /\ proc' = [proc EXCEPT !.phase = "exited", !.exitCode = 1,
                                     !.thrown = ConfigurationError(v.errors),
                                     !.log = @ \o v.warnings]
        ELSE /\ config' = cfg
             /\ proc' = [proc EXCEPT !.phase = "configured", !.log = @ \o v.warnings]
  /\ NoTraffic

\* app.listen(PORT)
Listen ==
  /\ proc.phase = "configured"
  /\ proc' = IF ValidListenPort(config.port)
             THEN [proc EXCEPT !.phase = "listening"]
             ELSE [proc EXCEPT !.phase = "exited", !.exitCode = 1,
                               !.thrown = "ERR_SOCKET_BAD_PORT"]
  /\ UNCHANGED config
  /\ NoTraffic

\* The process before its configuration is loaded, in any environment.
InitConfig ==
  /\ env \in ConfigEnvironments
  /\ config = None
  /\ proc = Loading
  /\ prev = None
  /\ now = 0
  /\ sessions = EmptyMap
  /\ cleared = 0
  /\ pc = [c \in Conns |-> "idle"]
  /\ req = [c \in Conns |-> None]
  /\ err = [c \in Conns |-> None]
  /\ res = [c \in Conns |-> None]
  /\ file = [c \in Conns |-> ""]
  /\ finishCb = [c \in Conns |-> None]
  /\ stdout = [c \in Conns |-> <<>>]
  /\ stderr = [c \in Conns |-> <<>>]

NextConfig == LoadAndValidate \/ Listen

SpecConfig == InitConfig /\ [][NextConfig]_vars

\* ------------------------------------------------------- process lifecycle
\* What the process-level handlers leave alone.
SameTraffic ==
  UNCHANGED <<env, config, now, sessions, pc, req, err, res, file, finishCb, stdout, stderr,
              cleared, prev>>

\* A shutdown signal handler: logs and calls server.close(callback).  The
\* server stops listening; the callback waits for the 'close' event.
OnSignal(sig) ==
  /\ Alive
  /\ proc.closeCbs < MaxSignals
  /\ proc' = [proc EXCEPT !.phase = "closing", !.closeCbs = @ + 1,
                          !.log = Append(@, sig \o " signal received: closing HTTP server")]

SIGTERM ==
  /\ OnSignal("SIGTERM")
  /\ SameTraffic

SIGINT ==
  /\ OnSignal("SIGINT")
  /\ SameTraffic

\* No connection carries a request that has not been answered in full.
Drained == \A c \in Conns : pc[c] \in {"idle", "done"}

\* A close callback that does not wait for the connections to end.
ServerClosedAtOnce ==
  /\ proc.phase = "closing"
  /\ proc' = [proc EXCEPT !.phase = "exited", !.exitCode = 0,
                          !.log = Append(@, "HTTP server closed")]
  /\ SameTraffic

\* The server emits 'close' once it has stopped listening and its
\* connections have ended; the first callback logs and calls process.exit(0).
ServerClosed ==
  /\ proc.phase = "closing"
  /\ Drained
  /\ proc' = [proc EXCEPT !.phase = "exited", !.exitCode = 0,
                          !.log = Append(@, "HTTP server closed")]
  /\ SameTraffic

\* process.on('uncaughtException'): logs and calls process.exit(1).
UncaughtException ==
  /\ Alive
  /\ proc' = [proc EXCEPT !.phase = "exited", !.exitCode = 1,
                          !.log = Append(@, "UNCAUGHT EXCEPTION")]
  /\ SameTraffic

Rejections == Cardinality({i \in DOMAIN proc.log : proc.log[i] = "UNHANDLED REJECTION"})

\* process.on('unhandledRejection'): logs.
UnhandledRejection ==
  /\ Alive
  /\ Rejections < MaxRejections
  /\ proc' = [proc EXCEPT !.log = Append(@, "UNHANDLED REJECTION")]
  /\ SameTraffic

\* Environment of the lifecycle runs: every variable unset.
ProcEnvironments ==
  {e \in Environments :
     e.NODE_ENV = "" /\ e.ENABLE_LOGGING = "" /\ e.ENABLE_ERROR_HANDLER = ""}

InitProc == Init /\ env \in ProcEnvironments

NextProc ==
  \/ Next
  \/ SIGTERM
  \/ SIGINT
  \/ ServerClosed
  \/ UncaughtException
  \/ UnhandledRejection

SpecProc == InitProc /\ [][NextProc]_vars

\* ------------------------------------------------------------- independence
\* What is kept of an answered request: the request, whether its page file
\* was absent, the status and the sending call of its response, and the
\* number of session records at that point.
Outcome(c) ==
  [req    |-> req[c],
   absent |-> (file[c] # "" /\ err[c] # None),
   status |-> res[c].status,
   kind   |-> res[c].kind,
   store  |-> Cardinality(DOMAIN sessions)]

\* The outcome of a finished request is kept for comparison with later ones.
Observe(c) ==
  /\ pc[c] = "done"
  /\ prev' = Outcome(c)
  /\ prev' # prev
  /\ UNCHANGED <<env, config, now, sessions, pc, req, err, res, file, finishCb, stdout,
                 stderr, cleared, proc>>

\* Environments of the independence runs: the defaults, with the error
\* handler enabled or disabled.
IndepEnvironments == {e \in Environments : e.NODE_ENV = "" /\ e.ENABLE_LOGGING = ""}

InitIndep == Init /\ env \in IndepEnvironments

NextIndep ==
  \/ Next
  \/ \E c \in Conns : Observe(c)

SpecIndep == InitIndep /\ [][NextIndep]_vars

\* ------------------------------------------------------------------ fairness
\* The event loop runs every callback that is ready: a request that can take
\* its next step in the pipeline takes it.
Progress(c) ==
  \/ BodyParseFail(c)
  \/ GetHome(c)
  \/ GetLogin(c)
  \/ PostLogin(c)
  \/ GetLogout(c)
  \/ GetDashboard(c)
  \/ GetApiData(c)
  \/ GetHealth(c)
  \/ PostApiData(c)
  \/ NotFound(c)
  \/ SendFileOk(c)
  \/ SendFileFail(c)
  \/ ErrorHandler(c)
  \/ Finish(c)

Fairness == \A c \in Conns : WF_vars(Progress(c))

SpecLive == Spec /\ Fairness

SpecProcLive == SpecProc /\ Fairness /\ WF_vars(ServerClosed)

\* ------------------------------------------------------------------ claims
\* Connection c has sent the response of its current request.
Answered(c) == pc[c] \in {"sent", "done"}
\* The response of connection c was produced by errorHandler.
FaultAnswered(c) == Answered(c) /\ err[c] # None
\* The response is the JSON error envelope with the given message and code.
IsEnvelope(rs) ==
  /\ rs.kind = "json"
  /\ rs.body.success = FALSE
  /\ {"message", "code", "timestamp"} \subseteq DOMAIN rs.body.error

C2_DisabledHandler ==
  \A c \in Conns :
    (env.ENABLE_ERROR_HANDLER = "false" /\ FaultAnswered(c))
    => /\ res[c].status = 500
       /\ res[c].kind = "send"
       /\ res[c].body = "Error handler is disabled"
       /\ stderr[c] = <<>>

C2_Witness ==
  \E c \in Conns :
    /\ env.ENABLE_ERROR_HANDLER = "false"
    /\ pc[c] = "sent"
    /\ err[c] # None /\ err[c].statusCode = 404 /\ err[c].code = "NOT_FOUND"
    /\ res[c].status = 500

\* C3 (as stated): with the error handler enabled, a fault is answered with the
\* JSON envelope when the request accepts JSON and with an HTML page when it
\* does not.
C3_AsClaimed ==
  \A c \in Conns :
    (config.features.enableErrorHandler /\ FaultAnswered(c))
    => IF req[c].accept = "json" THEN IsEnvelope(res[c]) ELSE res[c].kind # "json"

\* C3 (amended): with the error handler enabled, every fault is answered with
\* the JSON envelope {success:false, error:{message, code, timestamp}},
\* whatever content type the request declares acceptable; no HTML page is
\* rendered.
C3_AlwaysJson ==
  \A c \in Conns :
    (config.features.enableErrorHandler /\ FaultAnswered(c)) => IsEnvelope(res[c])

C3_Witness ==
  \E c \in Conns :
    /\ config.features.enableErrorHandler
    /\ pc[c] = "sent" /\ err[c] # None
    /\ req[c].accept = "html"
    /\ res[c].kind = "json" /\ res[c].status = 404

\* The response carries the stack trace of the fault.
HasStack(rs) == rs.kind = "json" /\ "stack" \in DOMAIN rs.body.error

\* C4: a fault response contains the fault's stack trace only when the
\* configured environment is development; in every other environment no
\* fault response contains it.
C4_StackOnlyInDevelopment ==
  \A c \in Conns :
    (FaultAnswered(c) /\ config.nodeEnv # "development") => ~HasStack(res[c])

C4_Witness ==
  \E c \in Conns :
    /\ config.nodeEnv = "production"
    /\ config.features.enableErrorHandler
    /\ pc[c] = "sent" /\ err[c] # None
    /\ IsEnvelope(res[c]) /\ ~HasStack(res[c])

\* C5: with the error handler enabled, a fault response has the status the
\* fault carries (statusCode, else status), 500 when it carries none, and the
\* envelope's code is the fault's code, "INTERNAL_ERROR" when it has none; an
\* exception without status or code is answered 500 / INTERNAL_ERROR.
C5_StatusAndCode ==
  \A c \in Conns :
    (config.features.enableErrorHandler /\ FaultAnswered(c))
    => /\ res[c].status =
            (IF err[c].statusCode # 0 THEN err[c].statusCode
             ELSE IF err[c].status # 0 THEN err[c].status ELSE 500)
       /\ res[c].body.error.code = (IF err[c].code # "" THEN err[c].code ELSE "INTERNAL_ERROR")
       /\ (err[c].statusCode = 0 /\ err[c].status = 0 /\ err[c].code = "")
            => (res[c].status = 500 /\ res[c].body.error.code = "INTERNAL_ERROR")

C5_Witness ==
  \E c \in Conns :
    /\ config.features.enableErrorHandler
    /\ pc[c] = "sent" /\ err[c] # None
    /\ err[c].statusCode = 0 /\ err[c].status = 0 /\ err[c].code = ""
    /\ res[c].status = 500 /\ res[c].body.error.code = "INTERNAL_ERROR"

\* C6: POST /login with username "admin" and password "password123" answers
\* with a redirect to /dashboard and puts a record {username, loginTime} in
\* the session store, keeping the records under other tokens; with any other
\* pair (missing fields included) it answers 401 and leaves the store as it was.
C6_Login ==
  [][\A c \in Conns :
       (Routed(c, "login") /\ pc'[c] = "sent")
       => IF /\ req[c].body.username = Str("admin")
             /\ req[c].body.password = Str("password123")
          THEN /\ res'[c].status = 302 /\ res'[c].location = "/dashboard"
               /\ NumToString(now) \in DOMAIN sessions'
               /\ sessions'[NumToString(now)] = [username |-> Str("admin"), loginTime |-> now]
               /\ \A k \in (DOMAIN sessions) \ {NumToString(now)} :
                    k \in DOMAIN sessions' /\ sessions'[k] = sessions[k]
          ELSE /\ res'[c].status = 401 /\ res'[c].kind = "send"
               /\ sessions' = sessions]_vars

C6_Witness ==
  \E c \in Conns :
    /\ pc[c] = "sent"
    /\ req[c].method = "POST" /\ req[c].url = "/login"
    /\ res[c].status = 302 /\ res[c].location = "/dashboard"
    /\ DOMAIN sessions = {"0", "1"}

\* The field is present in the parsed body.
Present(x) == x.t # "undefined"

\* C7 (as stated): POST /api/data answers 400 with success:false when name or
\* value is absent from the body, and 201 with success:true, echoing name and
\* value with a generated id, when both are present, whatever values they hold
\* (0, false and the empty string included).
C7_AsClaimed ==
  \A c \in Conns :
    (Answered(c) /\ req[c].bodyOk /\ MatchedRoute(req[c]) = "postData")
    => IF Present(req[c].body.name) /\ Present(req[c].body.value)
       THEN /\ res[c].status = 201
            /\ res[c].body.success = TRUE
            /\ res[c].body.data.name = req[c].body.name
            /\ res[c].body.data.value = req[c].body.value
            /\ "id" \in DOMAIN res[c].body.data
       ELSE /\ res[c].status = 400
            /\ res[c].body.success = FALSE

\* The Referer header is present and contains "login".
RefererHasLogin(rq) == rq.referer.t = "string" /\ Includes(rq.referer.v, "login")

\* C8 (as stated): a GET or HEAD request handled by the /dashboard route is
\* redirected to /login, and the dashboard page is not served, when its
\* Referer is absent or lacks "login"; it passes through to the dashboard page
\* when its Referer contains "login".
C8_AsClaimed ==
  \A c \in Conns :
    (/\ pc[c] \in {"sendFile", "faulted", "sent", "done"}
     /\ MatchedRoute(req[c]) = "dashboard")
    => IF RefererHasLogin(req[c])
       THEN file[c] = "dashboard.html"
       ELSE /\ file[c] = ""
            /\ res[c] # None
            /\ res[c].status = 302 /\ res[c].location = "/login"

\* C9: GET /logout, in every state, leaves the session store empty and answers
\* with a redirect to /.
C9_Logout ==
  [][\A c \in Conns :
       (Routed(c, "logout") /\ pc'[c] = "sent")
       => /\ DOMAIN sessions' = {}
          /\ res'[c].status = 302 /\ res'[c].location = "/"]_vars

C9_Witness ==
  \E c \in Conns :
    /\ pc[c] = "sent"
    /\ req[c].url = "/logout"
    /\ cleared = 2
    /\ DOMAIN sessions = {}
    /\ res[c].location = "/"

\* C10: with logging enabled, every request gets exactly one log line; nothing
\* is printed for it before its response has been written out, and the line
\* carries the request's method and URL and the status of the response.
C10_OneLogLine ==
  \A c \in Conns :
    (env.ENABLE_LOGGING # "false")
    => /\ pc[c] \in {"body", "sendFile", "faulted", "sent"} => stdout[c] = <<>>
       /\ pc[c] = "done"
            => /\ Len(stdout[c]) = 1
               /\ stdout[c][1].method = req[c].method
               /\ stdout[c][1].url = req[c].url
               /\ stdout[c][1].status = res[c].status

C10_Witness ==
  \E c \in Conns :
    /\ env.ENABLE_LOGGING # "false"
    /\ env.ENABLE_ERROR_HANDLER = "false"
    /\ pc[c] = "done"
    /\ err[c] # None
    /\ Len(stdout[c]) = 1
    /\ stdout[c][1].status = 500

\* ---------------------------------------------------------------------
\* The port of a loaded configuration is a decimal integer in 1..65535,
\* whether it is held as a number or as the PORT string.
PortIsInteger(port) ==
  /\ Len(port.v) > 0
  /\ IsDigits(port.v)
  /\ ParseDigits(port.v) >= 1
  /\ ParseDigits(port.v) <= 65535

\* PORT values that are not a number, and numbers outside [1, 65535].
NotANumberPorts == {"abc", "80a"}
OutOfRangePorts == {"0", "65536", "99999", "-1"}

\* C11: loading the configuration aborts startup with an error naming the
\* port exactly when PORT is set to a value that is not a number or lies
\* outside [1, 65535]; a configuration that has loaded exposes an integer
\* port in 1..65535, 3000 when PORT is unset.
C11_AsClaimed ==
  proc.phase # "loading" =>
    /\ (config = None) <=> (env.PORT \in NotANumberPorts \cup OutOfRangePorts)
    /\ config = None =>
          /\ proc.phase = "exited" /\ proc.exitCode # 0
          /\ Includes(proc.thrown, "Invalid PORT: " \o env.PORT)
    /\ config # None =>
          /\ PortIsInteger(config.port)
          /\ env.PORT = "" => config.port = Num("3000")

\* ---------------------------------------------------------------------
\* Connection c holds a page request whose file res.sendFile did not find.
FileAbsent(c) == file[c] # "" /\ err[c] # None
StaticPages == {"home.html", "login.html", "dashboard.html"}

\* C12 (as stated): for the static page handlers, a page file that is absent
\* surfaces as a fault with status 404 that reaches errorHandler and is
\* answered 404, never 500.
C12_AsClaimed ==
  \A c \in Conns :
    FileAbsent(c) =>
      /\ file[c] \in StaticPages
      /\ err[c].statusCode = 404
      /\ Answered(c) => res[c].status = 404 /\ res[c].status # 500

\* C12 (amended): for the static page handlers, a page file that is absent
\* surfaces as a fault with status 404 and code ENOENT that reaches
\* errorHandler; with the error handler enabled errorHandler logs it once and
\* answers 404 with the JSON envelope, with the error handler disabled it
\* answers the fixed 500.
C12_FileAbsent ==
  \A c \in Conns :
    FileAbsent(c) =>
      /\ file[c] \in StaticPages
      /\ err[c].statusCode = 404 /\ err[c].code = "ENOENT"
      /\ pc[c] \in {"faulted", "sent", "done"}
      /\ Answered(c) =>
            IF config.features.enableErrorHandler
            THEN /\ res[c].status = 404
                 /\ IsEnvelope(res[c])
                 /\ res[c].body.error.code = "ENOENT"
                 /\ Len(stderr[c]) = 1
            ELSE /\ res[c].status = 500
                 /\ res[c].kind = "send"

C12_Witness ==
  \E c \in Conns :
    /\ config.features.enableErrorHandler
    /\ pc[c] = "done"
    /\ req[c].url = "/dashboard" /\ file[c] = "dashboard.html"
    /\ err[c] = SendFileError
    /\ res[c].status = 404

\* ---------------------------------------------------------------------
\* Connection c carries a request that has not been answered in full.
InFlight(c) == pc[c] \in {"body", "sendFile", "faulted", "sent"}

\* One step of the shutdown: a closing server takes no new request and stays
\* closing until the process exits, and the exit with code 0 is taken from a
\* closing server with no request in flight.
C13_Step ==
  /\ proc.phase = "closing" =>
        /\ proc'.phase \in {"closing", "exited"}
        /\ \A c \in Conns : ~InFlight(c) => pc'[c] = pc[c] /\ req'[c] = req[c]
  /\ (proc.phase # "exited" /\ proc'.phase = "exited" /\ proc'.exitCode = 0) =>
        /\ proc.phase = "closing"
        /\ \A c \in Conns : ~InFlight(c)
  /\ (proc.phase = "listening" /\ proc'.closeCbs > proc.closeCbs) => proc'.phase = "closing"

\* C13: after SIGTERM or SIGINT the server takes no new connection, the
\* requests in flight are answered in full, and the process exits with code
\* 0 only then: it never exits by the shutdown path while a response is in
\* flight, and once a signal has arrived it eventually exits, a second
\* signal during the drain included.
C13_Shutdown ==
  /\ [][C13_Step]_vars
  /\ [](proc.exitCode = 0 => proc.phase = "exited" /\ \A c \in Conns : ~InFlight(c))
  /\ (proc.phase = "closing") ~> (proc.phase = "exited")

\* A second signal has arrived while a request that was in flight at the
\* first one is being answered.
C13_Witness ==
  \E c \in Conns :
    /\ proc.phase = "closing"
    /\ proc.closeCbs = 2
    /\ pc[c] = "sent"
    /\ res[c].status = 200

\* ---------------------------------------------------------------------
\* Connection c takes the step in which POST /login accepts the credentials.
LoginSucceeds(c) ==
  /\ Routed(c, "login")
  /\ ValidCredentials(req[c].body)
  /\ pc'[c] = "sent"

\* C14 (as stated): every successful login gets a token no earlier login
\* holds, so it adds one record to the session store and overwrites none:
\* n successful logins without a logout leave n records.
C14_AsClaimed ==
  [][\A c \in Conns :
       LoginSucceeds(c) =>
         /\ \E k \in DOMAIN sessions' : k \notin DOMAIN sessions
         /\ Cardinality(DOMAIN sessions') = Cardinality(DOMAIN sessions) + 1
         /\ \A k \in DOMAIN sessions : sessions'[k] = sessions[k]]_vars

Normal(c) == pc[c] \in {"body", "sendFile"}
\* A fault was raised for the request of connection c and is not yet answered.
Faulted(c) == pc[c] = "faulted"

\* One step of a request: forward only, one response, one run of the error
\* handler, and a step that raises a fault sends nothing.
C16_Step ==
  \A c \in Conns :
    /\ pc[c] = "body" => pc'[c] \in {"body", "sendFile", "faulted", "sent"}
    /\ pc[c] = "sendFile" => pc'[c] \in {"sendFile", "faulted", "sent"}
    /\ pc[c] = "faulted" => pc'[c] \in {"faulted", "sent"}
    /\ pc[c] = "sent" => pc'[c] \in {"sent", "done"}
    /\ (Answered(c) /\ pc'[c] # "body") =>
          /\ res'[c] = res[c]
          /\ err'[c] = err[c]
          /\ stderr'[c] = stderr[c]
    /\ (pc'[c] = "sent" /\ pc[c] # "sent") => res[c] = None /\ res'[c] # None
    /\ (pc'[c] = "faulted" /\ pc[c] # "faulted") =>
          err[c] = None /\ err'[c] # None /\ res'[c] = None
    /\ (Faulted(c) /\ pc'[c] = "sent") => err'[c] = err[c]

\* C16: every request goes NORMAL, optionally FAULTED, then a terminal state
\* with exactly one response sent: no request is answered twice, the error
\* handler runs at most once for a request, the pipeline never goes from
\* FAULTED back to NORMAL, and every request that enters the pipeline is
\* eventually answered.
C16_Lifecycle ==
  /\ [][C16_Step]_vars
  /\ [](\A c \in Conns :
          /\ Answered(c) <=> res[c] # None
          /\ Faulted(c) => err[c] # None
          /\ Normal(c) => (err[c] = None /\ stderr[c] = <<>>)
          /\ Len(stderr[c]) <= 1)
  /\ \A c \in Conns : (Normal(c) \/ Faulted(c)) ~> Answered(c)

\* A request went from its route handler through a fault to its one
\* response.
C16_Witness ==
  \E c \in Conns :
    /\ pc[c] = "done"
    /\ file[c] = "home.html"
    /\ err[c] = SendFileError
    /\ res[c] # None
    /\ Len(stderr[c]) = 1

\* ---------------------------------------------------------------------
\* Connection c has answered the request that was kept earlier, with the
\* same result of looking up its page file.
SameRequestAgain(c) ==
  /\ prev # None
  /\ Answered(c)
  /\ prev.req = req[c]
  /\ prev.absent = (file[c] # "" /\ err[c] # None)

FaultLogged(p) ==
  \E i \in DOMAIN p.log : p.log[i] \in {"UNCAUGHT EXCEPTION", "UNHANDLED REJECTION"}

\* C18 (as stated): an uncaught exception or an unhandled promise rejection
\* raised outside the request pipeline is logged and ends the process in the
\* same step with a non-zero exit code, and no request is served after it.
C18_AsClaimed ==
  [][/\ (FaultLogged(proc') /\ ~FaultLogged(proc)) =>
          /\ proc'.phase = "exited"
          /\ proc'.exitCode > 0
     /\ FaultLogged(proc) => (pc' = pc /\ res' = res)]_vars

\* ---------------------------------------------------------------------
\* C19 (as stated): the marker of a log line is fixed by the band of the
\* status: green exactly for [200, 300), yellow exactly for [400, 500), red
\* exactly for [500, 600), and none of the three for any other status.
C19_AsClaimed ==
  \A c \in Conns :
    \A i \in DOMAIN stdout[c] :
      LET line == stdout[c][i]
      IN /\ line.color = "green" <=> (line.status >= 200 /\ line.status < 300)
         /\ line.color = "yellow" <=> (line.status >= 400 /\ line.status < 500)
         /\ line.color = "red" <=> (line.status >= 500 /\ line.status < 600)

====
